---- MODULE Spec2Model ----
(***************************************************************************)
(* Keyword-sheet automation (src/main.py): POST /run-automation reads the  *)
(* keyword rows of a spreadsheet, refreshes each selected row through the  *)
(* Keyword Insight Updater and the Product Aggregator, and appends log     *)
(* lines to a process-wide buffer that GET /logs drains.                   *)
(*                                                                         *)
(* Spec     one run of run_automation over every sheet of InitSheets.      *)
(* SpecLogs one run interleaved with any number of get_logs calls (FastAPI *)
(*          runs both handlers on worker threads); get_logs touches the    *)
(*          log buffer only, which the run appends to and never reads.     *)
(* SpecAgg  the aggregation loop of fetch_product_data, one listing per    *)
(*          step, over every listing list up to MaxListings, the empty one *)
(*          included.                                                      *)
(*                                                                         *)
(* A behaviour holds one run: concurrent runs are not modelled.  A         *)
(* log_message append is one step; get_logs is two, the copy and the       *)
(* reset, and its calls follow one another.  trace, sheet0, returned,      *)
(* quietReads and prevNonEmpty are history variables read by the           *)
(* properties only.                                                        *)
(***************************************************************************)
EXTENDS Integers, Sequences, FiniteSets, TLC

VARIABLES
    sheet,           \* the spreadsheet: row -> column -> stored cell value
    sheet0,          \* the sheet as it was when the run started (history)
    pc,              \* position of the run_automation handler
    update_mode,     \* request.update_mode
    rows,            \* rows = sheet.get_all_values()
    idx,             \* loop variable of enumerate(data_rows, start=2)
    response,        \* what run_automation returned or raised
    trace,           \* gateway reads/writes, updater calls and log lines of the run
    log_buffer,      \* the global log buffer
    rpc,             \* position of the get_logs handler
    logs_to_return,  \* local of get_logs
    quietReads,      \* copies taken by get_logs since the last append (0..2)
    prevNonEmpty,    \* the previous get_logs call returned at least one line
    returned,        \* every line get_logs has returned so far (history)
    listings,        \* SpecAgg: response.data of product_database
    acc,             \* SpecAgg: the locals of fetch_product_data's loop
    aggI,            \* SpecAgg: index of the next listing
    aggOut           \* SpecAgg: the row written to F..Q

vars == <<sheet, sheet0, pc, update_mode, rows, idx, response, trace,
          log_buffer, rpc, logs_to_return, quietReads, prevNonEmpty, returned,
          listings, acc, aggI, aggOut>>

runVars == <<sheet, sheet0, pc, update_mode, rows, idx, response, trace>>
readVars == <<rpc, logs_to_return, prevNonEmpty, returned>>
aggVars == <<listings, acc, aggI, aggOut>>

-----------------------------------------------------------------------------
(* Values: Python values as they travel between the market-data client, the *)
(* handler and the spreadsheet.  A number is n/d (d = 1 for an int).        *)

None == [t |-> "none", n |-> 0, d |-> 1, s |-> ""]
IntV(n) == [t |-> "int", n |-> n, d |-> 1, s |-> ""]
FloatV(n, d) == [t |-> "float", n |-> n, d |-> d, s |-> ""]
StrV(s) == [t |-> "str", n |-> 0, d |-> 1, s |-> s]
ListValue == [t |-> "list", n |-> 0, d |-> 1, s |-> ""]

Max(S) == CHOOSE x \in S : \A y \in S : y <= x

\* Number of columns A..X: column B plus the 23 values of the insight row.
SheetWidth == 24

\* safe_getattr(obj, attr, default=0): an object is a function from the
\* attribute names it has to their values.
getattr_default(obj, attr, default) == IF attr \in DOMAIN obj THEN obj[attr] ELSE default

safe_getattr(obj, attr, default) ==
    LET value == IF attr \in DOMAIN obj THEN obj[attr] ELSE default
    IN  IF value.t \in {"int", "float", "str"} THEN value ELSE default

-----------------------------------------------------------------------------
(* Spreadsheet Gateway (gspread worksheet).                                 *)

TwoDigits(k) == IF k < 10 THEN "0" \o ToString(k) ELSE ToString(k)

\* The formatted text get_all_values returns for a stored cell.
Render(cell) ==
    CASE cell.t = "none" -> ""
      [] cell.t = "str" -> cell.s
      [] cell.t = "int" -> ToString(cell.n)
      [] OTHER ->
            IF cell.n % cell.d = 0
            THEN ToString(cell.n \div cell.d)
            ELSE ToString(cell.n \div cell.d) \o "."
                   \o TwoDigits(((cell.n % cell.d) * 100) \div cell.d)

LastCol(row) == Max({0} \cup {j \in 1..Len(row) : row[j] # None})

\* sheet.get_all_values(): the used range as rows of strings, every row padded
\* to the width of the widest row, trailing blank rows dropped.
get_all_values(sh) ==
    LET nrows == Max({0} \cup {r \in 1..Len(sh) : LastCol(sh[r]) > 0})
        width == Max({0} \cup {LastCol(sh[r]) : r \in 1..Len(sh)})
    IN  [r \in 1..nrows |-> [j \in 1..width |-> Render(sh[r][j])]]

\* sheet.update(range, [[v1, v2, ...]]): one row of values written from column
\* col on; a None (JSON null) leaves its cell as it is, "" blanks it.
StoredValueNull(old, v) == IF v.t = "none" \/ v = StrV("") THEN None ELSE v

StoredValue(old, v) ==
    IF v.t = "none" THEN old ELSE IF v = StrV("") THEN None ELSE v

update(sh, row_index, col, values) ==
    [sh EXCEPT ![row_index] =
        [j \in 1..Len(sh[row_index]) |->
            IF j >= col /\ j < col + Len(values)
            THEN StoredValue(sh[row_index][j], values[j - col + 1])
            ELSE sh[row_index][j]]]

-----------------------------------------------------------------------------
(* Log Sink.                                                                *)

Line(kind, kw, err) == [kind |-> kind, kw |-> kw, err |-> err]

log_message_front(buf, message) == <<message>> \o buf

log_message(buf, message) == Append(buf, message)

NoLine == Line("", "", "")

\* An entry of the run's history; a "log" entry carries the line appended.
Ev(ev, who, row, kind) ==
    [ev |-> ev, who |-> who, row |-> row, kind |-> kind, line |-> NoLine]

LogEv(who, row, kind, line) ==
    [ev |-> "log", who |-> who, row |-> row, kind |-> kind, line |-> line]

-----------------------------------------------------------------------------
(* Row Selector.                                                            *)

\* "not cell" for a cell of get_all_values, which is always a string.
PyNotZero(cell) == cell \in {"", "0"}

PyNot(cell) == cell = ""

\* is_row_empty(row_data): all(not cell for cell in row_data[1:])
is_row_empty_with_keyword(row_data) == \A i \in 1..Len(row_data) : PyNot(row_data[i])

is_row_empty(row_data) == \A i \in 2..Len(row_data) : PyNot(row_data[i])

\* enumerate(data_rows, start=2) over data_rows = rows[1:]
FirstDataIndexHeader == 2 - 1

FirstDataIndex == 2

\* The if / elif / else on request.update_mode.
ModeBranch(m) == IF m = "all" THEN "all" ELSE IF m = "new" THEN "new" ELSE "invalid"

\* The condition under which the loop body calls the two updaters on a row.
RowSelectedNoKeyword(m, row) ==
    \/ ModeBranch(m) = "all" /\ ~PyNot(row[1])
    \/ ModeBranch(m) = "new" /\ is_row_empty(row)

RowSelected(m, row) ==
    \/ ModeBranch(m) = "all" /\ ~PyNot(row[1])
    \/ ModeBranch(m) = "new" /\ ~PyNot(row[1]) /\ is_row_empty(row)

-----------------------------------------------------------------------------
(* Keyword Insight Updater.                                                 *)

Zero == IntV(0)

\* The row of values written at B{row_index}.
InsightRow(keyword_data) ==
    << safe_getattr(keyword_data, "monthly_search_volume_exact", Zero),
       safe_getattr(keyword_data, "monthly_search_volume_broad", Zero),
       safe_getattr(keyword_data, "ease_of_ranking_score", Zero),
       safe_getattr(keyword_data, "sponsored_product_count", Zero),
       None, None, None, None,
       None, None, None, None,
       None, None, None, None,
       safe_getattr(keyword_data, "monthly_trend", Zero),
       safe_getattr(keyword_data, "quarterly_trend", Zero),
       safe_getattr(keyword_data, "recommended_promotions", Zero),
       safe_getattr(keyword_data, "sp_brand_ad_bid", Zero),
       safe_getattr(keyword_data, "ppc_bid_broad", Zero),
       safe_getattr(keyword_data, "ppc_bid_exact", Zero),
       safe_getattr(keyword_data, "estimated_30_day_search_volume", Zero) >>

\* "except Exception as e" of the two updaters: every exception of the fetch,
\* the arithmetic or the write is caught.
UpdaterCatchesFetchOnly(exc) == exc = "api error"

UpdaterCatches(exc) == TRUE

\* What an updater hands back to the loop: the sheet, the log buffer, the
\* events it added and the exception that escaped it ("" when none did).
Outcome(sh, buf, evs, exc) == [sheet |-> sh, log |-> buf, evs |-> evs, exc |-> exc]

\* The except clause of an updater, or the exception passing it by.
ExceptedSilent(sh, buf, evs, who, keyword, row_index, exc) == Outcome(sh, buf, evs, "")

Excepted(sh, buf, evs, who, keyword, row_index, exc) ==
    IF UpdaterCatches(exc)
    THEN Outcome(sh, log_message(buf, Line(who \o "_error", keyword, exc)),
                 evs \o <<LogEv(who, row_index, "error", Line(who \o "_error", keyword, exc))>>, "")
    ELSE Outcome(sh, buf, evs, exc)

\* What the market-data client did: it raised, it answered without data, or
\* it answered with data.  A "call" entry of the history carries it.
RespKind(resp) ==
    IF resp.exc # "" THEN "raised" ELSE IF resp.data = <<>> THEN "empty" ELSE "data"

\* The line of "if not response.data": it names the keyword.
NoDataLineAnonymous(who, keyword) == Line(who \o "_nodata", "", "")

NoDataLine(who, keyword) == Line(who \o "_nodata", keyword, "")

\* Column B of f'B{row_index}'.
InsightColA == 2 - 1

InsightCol == 2

\* fetch_keyword_insights(sheet, keyword, row_index), given the response of
\* client.keywords_by_keyword and whether sheet.update succeeds.
fetch_keyword_insights(sh, buf, keyword, row_index, resp, wok) ==
    LET who == "insight"
        call == <<Ev("call", who, row_index, RespKind(resp))>>
        wr == <<Ev("write", who, row_index, "")>>
    IN  IF resp.exc # ""
        THEN Excepted(sh, buf, call, who, keyword, row_index, resp.exc)
        ELSE IF resp.data = <<>>
        THEN Outcome(sh, log_message(buf, NoDataLine(who, keyword)),
                     call \o <<LogEv(who, row_index, "nodata", NoDataLine(who, keyword))>>, "")
        ELSE IF ~wok
        THEN Excepted(sh, buf, call, who, keyword, row_index, "write error")
        ELSE Outcome(update(sh, row_index, InsightCol, InsightRow(resp.data[1].attributes)),
                     log_message(buf, Line(who \o "_updated", keyword, "")),
                     call \o wr \o <<LogEv(who, row_index, "updated", Line(who \o "_updated", keyword, ""))>>, "")

-----------------------------------------------------------------------------
(* Product Aggregator.                                                      *)

\* The locals of fetch_product_data before its loop.
AccInit ==
    [total_sales |-> 0, total_revenue |-> 0, total_price |-> 0, total_reviews |-> 0,
     highest_price |-> 0, highest_price_units |-> 0,
     second_highest_price |-> 0, second_highest_units |-> 0,
     third_highest_price |-> 0, third_highest_units |-> 0,
     sellers_with_low_reviews |-> 0, irrelevant_listings |-> 0,
     count |-> 0, exc |-> ""]

\* units_sold >= 100
MinUnits == 100

\* reviews < 100
LowReviewsInclusive == 100 + 1

LowReviews == 100

\* The if / elif / elif on price of a listing with units_sold >= 100.
Tiers(a, price, units_sold) ==
    IF price > a.highest_price
    THEN [a EXCEPT !.third_highest_price = a.second_highest_price,
                   !.third_highest_units = a.second_highest_units,
                   !.second_highest_price = a.highest_price,
                   !.second_highest_units = a.highest_price_units,
                   !.highest_price = price,
                   !.highest_price_units = units_sold]
    ELSE IF price > a.second_highest_price
    THEN [a EXCEPT !.third_highest_price = a.second_highest_price,
                   !.third_highest_units = a.second_highest_units,
                   !.second_highest_price = price,
                   !.second_highest_units = units_sold]
    ELSE IF price > a.third_highest_price
    THEN [a EXCEPT !.third_highest_price = price,
                   !.third_highest_units = units_sold]
    ELSE a

\* The units_sold >= 100 test that guards the tier update.
QualifiesAlways(units_sold) == TRUE

Qualifies(units_sold) == units_sold >= MinUnits

\* One iteration of "for product in response.data".  A str among the four
\* attributes makes the += raise TypeError; the listings of the model carry
\* int attributes otherwise.
AggStep(a, product) ==
    LET attributes == product.attributes
        units_sold == safe_getattr(attributes, "approximate_30_day_units_sold", Zero)
        revenue == safe_getattr(attributes, "approximate_30_day_revenue", Zero)
        price == safe_getattr(attributes, "price", Zero)
        reviews == safe_getattr(attributes, "reviews", Zero)
        summed == [a EXCEPT !.total_sales = @ + units_sold.n,
                            !.total_revenue = @ + revenue.n,
                            !.total_price = @ + price.n,
                            !.total_reviews = @ + reviews.n,
                            !.count = @ + 1]
        tiered == IF Qualifies(units_sold.n)
                  THEN Tiers(summed, price.n, units_sold.n)
                  ELSE summed
    IN  IF "str" \in {units_sold.t, revenue.t, price.t, reviews.t}
        THEN [a EXCEPT !.exc = "TypeError"]
        ELSE IF reviews.n < LowReviews
        THEN [tiered EXCEPT !.sellers_with_low_reviews = @ + 1]
        ELSE tiered

\* The whole loop: the locals after the last listing, or after the one that raised.
RECURSIVE AggLoop(_, _, _)
AggLoop(a, data, i) ==
    IF i > Len(data) \/ a.exc # "" THEN a ELSE AggLoop(AggStep(a, data[i]), data, i + 1)

\* total / count if count else 0
AverageFloor(total, count) == IF count # 0 THEN IntV(total \div count) ELSE Zero

Average(total, count) == IF count # 0 THEN FloatV(total, count) ELSE Zero

\* The row of 12 values written at F{row_index}:Q{row_index}.
ProductRow(a) ==
    << Average(a.total_sales, a.count), Average(a.total_revenue, a.count),
       Average(a.total_price, a.count), Average(a.total_reviews, a.count),
       IntV(a.highest_price), IntV(a.highest_price_units),
       IntV(a.second_highest_price), IntV(a.second_highest_units),
       IntV(a.third_highest_price), IntV(a.third_highest_units),
       IntV(a.sellers_with_low_reviews), IntV(a.irrelevant_listings) >>

\* Column F of f'F{row_index}:Q{row_index}'.
ProductCol == 6

\* fetch_product_data(sheet, keyword, row_index), given the response of
\* client.product_database and whether sheet.update succeeds.
fetch_product_data(sh, buf, keyword, row_index, resp, wok) ==
    LET who == "product"
        call == <<Ev("call", who, row_index, RespKind(resp))>>
        wr == <<Ev("write", who, row_index, "")>>
        a == AggLoop(AccInit, resp.data, 1)
    IN  IF resp.exc # ""
        THEN Excepted(sh, buf, call, who, keyword, row_index, resp.exc)
        ELSE IF resp.data = <<>>
        THEN Outcome(sh, log_message(buf, NoDataLine(who, keyword)),
                     call \o <<LogEv(who, row_index, "nodata", NoDataLine(who, keyword))>>, "")
        ELSE IF a.exc # ""
        THEN Excepted(sh, buf, call, who, keyword, row_index, a.exc)
        ELSE IF ~wok
        THEN Excepted(sh, buf, call, who, keyword, row_index, "write error")
        ELSE Outcome(update(sh, row_index, ProductCol, ProductRow(a)),
                     log_message(buf, Line(who \o "_updated", keyword, "")),
                     call \o wr \o <<LogEv(who, row_index, "updated", Line(who \o "_updated", keyword, ""))>>, "")

-----------------------------------------------------------------------------
(* Inputs: what the market-data client answers and what the sheet holds.    *)

Listing(units, revenue, price, reviews) ==
    [attributes |-> [approximate_30_day_units_sold |-> IntV(units),
                     approximate_30_day_revenue |-> IntV(revenue),
                     price |-> IntV(price),
                     reviews |-> IntV(reviews)]]

\* A listing with no price and no review count.
ListingBare(units, revenue) ==
    [attributes |-> [approximate_30_day_units_sold |-> IntV(units),
                     approximate_30_day_revenue |-> IntV(revenue)]]

\* A listing whose unit count came back as text.
ListingText ==
    [attributes |-> [approximate_30_day_units_sold |-> StrV("n/a"),
                     approximate_30_day_revenue |-> IntV(10),
                     price |-> IntV(10),
                     reviews |-> IntV(10)]]

\* A listing every figure of which is zero or unusable.
ListingZero ==
    [attributes |-> [approximate_30_day_units_sold |-> IntV(0),
                     approximate_30_day_revenue |-> IntV(0),
                     price |-> IntV(0),
                     reviews |-> ListValue]]

ScenarioListings ==
    << Listing(150, 3000, 20, 50), Listing(200, 6000, 30, 150), Listing(50, 5000, 100, 5) >>

Response(exc, data) == [exc |-> exc, data |-> data]

ProductResponses ==
    { Response("api error", <<>>), Response("", <<>>),
      Response("", ScenarioListings), Response("", <<ListingZero>>),
      Response("", <<ListingText>>) }

AttrsFull ==
    [monthly_search_volume_exact |-> IntV(1200),
     monthly_search_volume_broad |-> IntV(5000),
     ease_of_ranking_score |-> IntV(40),
     sponsored_product_count |-> IntV(3),
     monthly_trend |-> FloatV(5, 2),
     quarterly_trend |-> FloatV(7, 1),
     recommended_promotions |-> IntV(12),
     sp_brand_ad_bid |-> FloatV(3, 4),
     ppc_bid_broad |-> FloatV(1, 2),
     ppc_bid_exact |-> FloatV(5, 4),
     estimated_30_day_search_volume |-> IntV(900)]

\* Attributes that are missing, zero or of a type safe_getattr rejects.
AttrsPoor ==
    [monthly_search_volume_exact |-> IntV(0),
     ease_of_ranking_score |-> ListValue,
     monthly_trend |-> None,
     sp_brand_ad_bid |-> IntV(0)]

InsightResponses ==
    { Response("api error", <<>>), Response("", <<>>),
      Response("", <<[attributes |-> AttrsFull]>>),
      Response("", <<[attributes |-> AttrsPoor]>>) }

MkRow(a, col, v) ==
    [j \in 1..SheetWidth |-> IF j = 1 THEN a ELSE IF j = col THEN v ELSE None]

\* Rows a sheet may hold: blank, a new keyword, a keyword with a metric of
\* zero, a keyword with a metric, metrics without a keyword.
RowTemplates(kw) ==
    { MkRow(None, 2, None), MkRow(StrV(kw), 2, None), MkRow(StrV(kw), 7, IntV(0)),
      MkRow(StrV(kw), 2, IntV(1200)), MkRow(None, 3, IntV(7)) }

\* Header rows: the keyword heading alone, or with a metric heading.
HeaderBare == MkRow(StrV("Keyword"), 2, None)

HeaderFull == MkRow(StrV("Keyword"), 2, StrV("Search Volume"))

InitSheets ==
    { <<h, a, b>> : h \in {HeaderBare, HeaderFull},
                    a \in RowTemplates("shoes"), b \in RowTemplates("hats") }

\* The sheets of the runs that are interleaved with get_logs.
LogSheets ==
    { <<HeaderBare, MkRow(StrV("shoes"), 2, None), MkRow(None, 3, IntV(7))>>,
      <<HeaderBare, MkRow(None, 2, None), MkRow(StrV("hats"), 2, None)>> }

Modes == {"all", "new", "bogus", "ALL"}

-----------------------------------------------------------------------------
(* run_automation.                                                          *)

NoResponse == [status |-> 0, detail |-> ""]

\* "except Exception as e" of run_automation: HTTPException is an Exception,
\* so the handler catches the 400 it raised itself.
HandlerCatches(exc) == TRUE

\* detail of the HTTPException the except clause raises.
ErrorDetailOfException(exc) == exc

ErrorDetail(exc) == "Internal Server Error"

\* The except clause of run_automation.
Failed(exc) ==
    /\ log_buffer' = log_message(log_buffer, Line("automation_error", "", exc))
    /\ trace' = trace \o <<LogEv("run", 0, "error", Line("automation_error", "", exc))>>
    /\ response' = [status |-> 500, detail |-> ErrorDetail(exc)]
    /\ pc' = "done"
    /\ quietReads' = 0

\* A POST /run-automation arrives.
StartRun ==
    /\ pc = "idle"
    /\ \E m \in Modes : update_mode' = m
    /\ pc' = "connect"
    /\ UNCHANGED <<sheet, sheet0, rows, idx, response, trace, log_buffer, quietReads>>
    /\ UNCHANGED readVars /\ UNCHANGED aggVars

\* sheet = connect_to_google_sheets()
Connect ==
    /\ pc = "connect"
    /\ \E ok \in BOOLEAN :
         IF ok
         THEN /\ pc' = "read"
              /\ trace' = trace \o <<Ev("connect", "run", 0, "")>>
              /\ UNCHANGED <<response, log_buffer, quietReads>>
         ELSE Failed("connection failed")
    /\ UNCHANGED <<sheet, sheet0, update_mode, rows, idx>>
    /\ UNCHANGED readVars /\ UNCHANGED aggVars

\* rows = sheet.get_all_values()
ReadRows ==
    /\ pc = "read"
    /\ \E ok \in BOOLEAN :
         IF ok
         THEN /\ pc' = "dispatch"
              /\ rows' = get_all_values(sheet)
              /\ trace' = trace \o <<Ev("read", "run", 0, "")>>
              /\ UNCHANGED <<response, log_buffer, quietReads>>
         ELSE /\ Failed("read failed")
              /\ UNCHANGED rows
    /\ UNCHANGED <<sheet, sheet0, update_mode, idx>>
    /\ UNCHANGED readVars /\ UNCHANGED aggVars

\* The if / elif / else on update_mode, up to the first loop test.
Dispatch ==
    /\ pc = "dispatch"
    /\ IF ModeBranch(update_mode) = "invalid"
       THEN IF HandlerCatches("400: Invalid update mode")
            THEN Failed("400: Invalid update mode")
            ELSE /\ response' = [status |-> 400, detail |-> "Invalid update mode"]
                 /\ pc' = "done"
                 /\ UNCHANGED <<log_buffer, trace, quietReads>>
       ELSE /\ log_buffer' = log_message(log_buffer, Line("processing_" \o ModeBranch(update_mode), "", ""))
            /\ trace' = trace \o <<LogEv("run", 0, "banner",
                                       Line("processing_" \o ModeBranch(update_mode), "", ""))>>
            /\ quietReads' = 0
            /\ pc' = "loop"
            /\ UNCHANGED response
    /\ idx' = FirstDataIndex
    /\ UNCHANGED <<sheet, sheet0, update_mode, rows>>
    /\ UNCHANGED readVars /\ UNCHANGED aggVars

\* A row the loop passes over.
SkipRow ==
    /\ pc = "loop"
    /\ idx <= Len(rows)
    /\ ~RowSelected(update_mode, rows[idx])
    /\ idx' = idx + 1
    /\ UNCHANGED <<sheet, sheet0, pc, update_mode, rows, response, trace, log_buffer, quietReads>>
    /\ UNCHANGED readVars /\ UNCHANGED aggVars

\* The effect of one updater call on the run.
Apply(out, nextpc, nextidx) ==
    IF out.exc = ""
    THEN /\ sheet' = out.sheet
         /\ log_buffer' = out.log
         /\ trace' = trace \o out.evs
         /\ quietReads' = 0
         /\ pc' = nextpc
         /\ idx' = nextidx
         /\ UNCHANGED response
    ELSE /\ sheet' = out.sheet
         /\ log_buffer' = log_message(out.log, Line("automation_error", "", out.exc))
         /\ trace' = trace \o out.evs
                     \o <<LogEv("run", 0, "error", Line("automation_error", "", out.exc))>>
         /\ response' = [status |-> 500, detail |-> ErrorDetail(out.exc)]
         /\ pc' = "done"
         /\ quietReads' = 0
         /\ UNCHANGED idx

\* fetch_keyword_insights(sheet, row[0], idx) on a selected row.
FetchKeywordInsights ==
    /\ pc = "loop"
    /\ idx <= Len(rows)
    /\ RowSelected(update_mode, rows[idx])
    /\ \E resp \in InsightResponses, wok \in BOOLEAN :
         /\ (resp.exc # "" \/ resp.data = <<>>) => wok
         /\ Apply(fetch_keyword_insights(sheet, log_buffer, rows[idx][1], idx, resp, wok),
                  "product", idx)
    /\ UNCHANGED <<sheet0, update_mode, rows>>
    /\ UNCHANGED readVars /\ UNCHANGED aggVars

\* fetch_product_data(sheet, row[0], idx) on the same row, then the next row.
FetchProductData ==
    /\ pc = "product"
    /\ \E resp \in ProductResponses, wok \in BOOLEAN :
         /\ (resp.exc # "" \/ resp.data = <<>>) => wok
         /\ Apply(fetch_product_data(sheet, log_buffer, rows[idx][1], idx, resp, wok),
                  "loop", idx + 1)
    /\ UNCHANGED <<sheet0, update_mode, rows>>
    /\ UNCHANGED readVars /\ UNCHANGED aggVars

\* return {"status": "Automation completed successfully"}
Finish ==
    /\ pc = "loop"
    /\ idx > Len(rows)
    /\ response' = [status |-> 200, detail |-> "Automation completed successfully"]
    /\ pc' = "done"
    /\ UNCHANGED <<sheet, sheet0, update_mode, rows, idx, trace, log_buffer, quietReads>>
    /\ UNCHANGED readVars /\ UNCHANGED aggVars

-----------------------------------------------------------------------------
(* get_logs.                                                                *)

\* What "log_buffer = []" leaves in the buffer.
KeepBuffer(buf) == buf

Cleared(buf) == <<>>

\* log_buffer[:]
SliceTail(buf) == IF buf = <<>> THEN <<>> ELSE Tail(buf)

SliceAll(buf) == buf

\* logs_to_return = log_buffer[:]
GetLogsCopy ==
    /\ rpc = "idle"
    /\ logs_to_return' = SliceAll(log_buffer)
    /\ rpc' = "copied"
    /\ quietReads' = IF quietReads < 2 THEN quietReads + 1 ELSE 2
    /\ UNCHANGED <<log_buffer, prevNonEmpty, returned>>
    /\ UNCHANGED runVars /\ UNCHANGED aggVars

\* log_buffer = []; return {"logs": logs_to_return}
GetLogsReset ==
    /\ rpc = "copied"
    /\ log_buffer' = Cleared(log_buffer)
    /\ rpc' = "idle"
    /\ logs_to_return' = <<>>
    /\ prevNonEmpty' = (logs_to_return # <<>>)
    /\ returned' = returned \o logs_to_return
    /\ UNCHANGED quietReads
    /\ UNCHANGED runVars /\ UNCHANGED aggVars

-----------------------------------------------------------------------------
(* Specifications.                                                          *)

Init ==
    /\ sheet \in InitSheets
    /\ sheet0 = sheet
    /\ pc = "idle"
    /\ update_mode = ""
    /\ rows = <<>>
    /\ idx = 0
    /\ response = NoResponse
    /\ trace = <<>>
    /\ log_buffer = <<>>
    /\ rpc = "idle"
    /\ logs_to_return = <<>>
    /\ quietReads = 0
    /\ prevNonEmpty = FALSE
    /\ returned = <<>>
    /\ listings = <<>>
    /\ acc = AccInit
    /\ aggI = 0
    /\ aggOut = <<>>

\* One run of run_automation.
Next ==
    \/ StartRun
    \/ Connect
    \/ ReadRows
    \/ Dispatch
    \/ SkipRow
    \/ FetchKeywordInsights
    \/ FetchProductData
    \/ Finish

Spec == Init /\ [][Next]_vars

\* One run of run_automation while another worker thread serves get_logs
\* calls, one after the other.
InitLogs ==
    /\ sheet \in LogSheets
    /\ sheet0 = sheet
    /\ pc = "idle"
    /\ update_mode = ""
    /\ rows = <<>>
    /\ idx = 0
    /\ response = NoResponse
    /\ trace = <<>>
    /\ log_buffer = <<>>
    /\ rpc = "idle"
    /\ logs_to_return = <<>>
    /\ quietReads = 0
    /\ prevNonEmpty = FALSE
    /\ returned = <<>>
    /\ listings = <<>>
    /\ acc = AccInit
    /\ aggI = 0
    /\ aggOut = <<>>

NextLogs ==
    \/ StartRun
    \/ Connect
    \/ ReadRows
    \/ Dispatch
    \/ SkipRow
    \/ FetchKeywordInsights
    \/ FetchProductData
    \/ Finish
    \/ GetLogsCopy
    \/ GetLogsReset

SpecLogs == InitLogs /\ [][NextLogs]_vars

-----------------------------------------------------------------------------
(* The aggregation loop on its own.                                         *)

MaxListings == 3

ProductPool ==
    { Listing(150, 3000, 20, 50), Listing(200, 6000, 30, 150), Listing(50, 5000, 100, 5),
      Listing(100, 2000, 20, 100), Listing(120, 1200, 10, 99), Listing(99, 990, 30, 100),
      Listing(500, 9000, 40, 1000), ListingBare(300, 0), ListingText }

ListingLists == UNION { [1..n -> ProductPool] : n \in 0..MaxListings }

InitAgg ==
    /\ sheet = <<HeaderBare>>
    /\ sheet0 = sheet
    /\ pc = "aggregate"
    /\ update_mode = ""
    /\ rows = <<>>
    /\ idx = 0
    /\ response = NoResponse
    /\ trace = <<>>
    /\ log_buffer = <<>>
    /\ rpc = "idle"
    /\ logs_to_return = <<>>
    /\ quietReads = 0
    /\ prevNonEmpty = FALSE
    /\ returned = <<>>
    /\ listings \in ListingLists
    /\ acc = AccInit
    /\ aggI = 1
    /\ aggOut = <<>>

mainVars == <<sheet, sheet0, pc, update_mode, rows, idx, response, trace,
              log_buffer, rpc, logs_to_return, quietReads, prevNonEmpty, returned>>

\* if not response.data: the no-data line and the return, nothing is written.
AggNoData ==
    /\ listings = <<>>
    /\ aggI = 1
    /\ aggI' = 0
    /\ UNCHANGED <<listings, acc, aggOut>>
    /\ UNCHANGED mainVars

\* One iteration of the loop over response.data.
AggIterate ==
    /\ aggI >= 1 /\ aggI <= Len(listings)
    /\ acc.exc = ""
    /\ acc' = AggStep(acc, listings[aggI])
    /\ aggI' = aggI + 1
    /\ UNCHANGED <<listings, aggOut>>
    /\ UNCHANGED mainVars

\* The loop is over: the averages and the range F..Q.
AggWrite ==
    /\ listings # <<>>
    /\ aggI > Len(listings)
    /\ acc.exc = ""
    /\ aggOut = <<>>
    /\ aggOut' = ProductRow(acc)
    /\ UNCHANGED <<listings, acc, aggI>>
    /\ UNCHANGED mainVars

\* An iteration raised: the except clause, nothing is written.
AggExcept ==
    /\ acc.exc # ""
    /\ aggI # 0
    /\ aggI' = 0
    /\ UNCHANGED <<listings, acc, aggOut>>
    /\ UNCHANGED mainVars

NextAgg == AggNoData \/ AggIterate \/ AggWrite \/ AggExcept

SpecAgg == InitAgg /\ [][NextAgg]_vars

-----------------------------------------------------------------------------
(* Vocabulary of the properties.                                            *)

IsCall(e) == e.ev = "call"
IsRead(e) == e.ev = "read"
IsConnect(e) == e.ev = "connect"

Calls == SelectSeq(trace, IsCall)
Connected == SelectSeq(trace, IsConnect) # <<>>
RowsRead == SelectSeq(trace, IsRead) # <<>>
ValidMode == update_mode \in {"all", "new"}
Succeeded == pc = "done" /\ response.status = 200

\* The rows handed to both updaters.
ProcessedRows ==
    {r \in 1..Len(sheet0) :
        /\ \E i \in 1..Len(Calls) : Calls[i].who = "insight" /\ Calls[i].row = r
        /\ \E i \in 1..Len(Calls) : Calls[i].who = "product" /\ Calls[i].row = r}

CalledRows == {Calls[i].row : i \in 1..Len(Calls)}

\* The elements of a set of numbers in ascending order.
Asc(S) ==
    CHOOSE q \in [1..Cardinality(S) -> S] :
        \A i, j \in 1..Cardinality(S) : i < j => q[i] < q[j]

\* insight then product for every row of q, in the order of q.
InOrder(q) ==
    [k \in 1..(2 * Len(q)) |->
        [who |-> IF k % 2 = 1 THEN "insight" ELSE "product", row |-> q[(k + 1) \div 2]]]

CallList == [k \in 1..Len(Calls) |-> [who |-> Calls[k].who, row |-> Calls[k].row]]

IsPrefix(s, t) == Len(s) <= Len(t) /\ SubSeq(t, 1, Len(s)) = s
IsSuffix(s, t) == Len(s) <= Len(t) /\ SubSeq(t, Len(t) - Len(s) + 1, Len(t)) = s

\* s is t with some elements left out (the elements of t are distinct).
IsSubsequence(s, t) ==
    /\ \A i \in 1..Len(s) : \E k \in 1..Len(t) : t[k] = s[i]
    /\ \A i, j \in 1..Len(s) :
          i < j => \A k, l \in 1..Len(t) : (t[k] = s[i] /\ t[l] = s[j]) => k < l

IsLog(e) == e.ev = "log"

\* The lines the run has appended, in order.
LoggedLines ==
    [i \in 1..Len(SelectSeq(trace, IsLog)) |-> SelectSeq(trace, IsLog)[i].line]

KeywordCell(r) == sheet0[r][1]
MetricCells(r) == {sheet0[r][j] : j \in 2..Len(sheet0[r])}

\* A stored cell that is blank, an empty string or the number zero.
CellFalsy(c) == c.t = "none" \/ (c.t = "str" /\ c.s = "") \/ (c.t \in {"int", "float"} /\ c.n = 0)

SelectedRows(m, snapshot) ==
    {r \in FirstDataIndex..Len(snapshot) : RowSelected(m, snapshot[r])}

-----------------------------------------------------------------------------
(* Properties.                                                              *)

\* C1: a run whose update_mode is neither "all" nor "new", with the sheet
\* connected and read, ends with status 400.
InvalidModeIsClientError ==
    (pc = "done" /\ ~ValidMode /\ Connected /\ RowsRead) => response.status = 400

\* C2: in a run whose update_mode is neither "all" nor "new" the gateway is
\* asked for no row and no cell is written.
InvalidModeTouchesNoRow ==
    (pc # "idle" /\ ~ValidMode) =>
        \A i \in 1..Len(trace) : trace[i].ev \notin {"read", "write"}

\* C3 as stated: between two get_logs calls every line appended so far has
\* been returned by exactly one read or is still in the buffer, in append order.
EveryLineReturnedOnce ==
    rpc = "idle" => returned \o log_buffer = LoggedLines

\* C3 amended: the lines returned so far are lines that were appended, each
\* returned once and in append order; a read returns the front of the buffer
\* it then discards, and the buffer always holds the latest lines appended (a
\* line appended between a read's copy and its reset is dropped unreturned).
ReturnedOnceInOrder ==
    /\ IsSubsequence(returned, LoggedLines)
    /\ \A i \in 1..Len(returned) : \A j \in 1..Len(log_buffer) : returned[i] # log_buffer[j]
    /\ IsSuffix(log_buffer, LoggedLines)
    /\ rpc = "copied" => IsPrefix(logs_to_return, log_buffer)
    /\ rpc = "idle" => logs_to_return = <<>>

ReturnedOnceInOrderWitness ==
    /\ rpc = "idle"
    /\ returned # <<>>
    /\ Len(returned) + Len(log_buffer) < Len(LoggedLines)

\* C4: of two consecutive get_logs calls with no append since the first one
\* began, the first returns the whole buffer and the second returns the empty
\* list; the buffer is empty after each.
DrainAndClear ==
    /\ (rpc = "copied" /\ quietReads >= 1) => logs_to_return = log_buffer
    /\ (rpc = "idle" /\ quietReads >= 1) => log_buffer = <<>>
    /\ (rpc = "copied" /\ quietReads = 2) => logs_to_return = <<>>

DrainAndClearWitness ==
    rpc = "copied" /\ quietReads = 2 /\ prevNonEmpty /\ logs_to_return = <<>>

\* C5 as stated: mode "new" processes exactly the data rows with a keyword
\* whose other cells are all blank, empty strings or zero, in ascending order;
\* mode "all" processes every data row with a keyword.
NewModeSelectsFalsyRows ==
    /\ (Succeeded /\ update_mode = "new") =>
          CallList = InOrder(Asc({r \in 2..Len(sheet0) :
                        KeywordCell(r) # None /\ \A c \in MetricCells(r) : CellFalsy(c)}))
    /\ (Succeeded /\ update_mode = "all") =>
          CallList = InOrder(Asc({r \in 2..Len(sheet0) : KeywordCell(r) # None}))

\* C5 amended: mode "new" processes exactly the data rows with a keyword whose
\* other cells are all blank, in ascending order (a cell holding zero is read
\* as the text "0" and makes the row an old one); mode "all" processes every
\* data row with a keyword.
NewModeSelectsBlankRows ==
    /\ (Succeeded /\ update_mode = "new") =>
          CallList = InOrder(Asc({r \in 2..Len(sheet0) :
                        KeywordCell(r) # None /\ \A c \in MetricCells(r) : c = None}))
    /\ (Succeeded /\ update_mode = "all") =>
          CallList = InOrder(Asc({r \in 2..Len(sheet0) : KeywordCell(r) # None}))

NewModeSelectsBlankRowsWitness ==
    /\ Succeeded /\ update_mode = "new"
    /\ ProcessedRows # {}
    /\ \E r \in 2..Len(sheet0) :
          KeywordCell(r) # None /\ IntV(0) \in MetricCells(r) /\ r \notin CalledRows

\* C6: on one snapshot the rows of mode "new" are among the rows of mode
\* "all", and a run processes exactly the rows of its mode.
NewSubsetOfAll ==
    /\ RowsRead => SelectedRows("new", rows) \subseteq SelectedRows("all", rows)
    /\ (Succeeded /\ ValidMode) => ProcessedRows = SelectedRows(update_mode, rows)
    /\ (update_mode = "new") => CalledRows \subseteq SelectedRows("all", rows)

NewSubsetOfAllWitness ==
    /\ Succeeded /\ update_mode = "new"
    /\ ProcessedRows # {}
    /\ ProcessedRows # SelectedRows("all", rows)

\* C7: no updater is called on the header row or on a row whose keyword cell
\* is empty, whatever its other cells hold.
NoHeaderNoEmptyKeyword ==
    \A i \in 1..Len(Calls) : Calls[i].row >= 2 /\ KeywordCell(Calls[i].row) # None

NoHeaderNoEmptyKeywordWitness ==
    /\ Succeeded
    /\ Calls # <<>>
    /\ \E r \in 2..Len(sheet0) : KeywordCell(r) = None /\ MetricCells(r) # {None}

\* C8: with a valid mode and the rows read, the calls are insight then
\* product for each selected row in ascending row order, each call's write and
\* log line come before the next call, and the run ends with status 200
\* whatever the updaters met.
SequentialUpdaters ==
    (ValidMode /\ RowsRead) =>
        LET expected == InOrder(Asc(SelectedRows(update_mode, rows)))
        IN  /\ IsPrefix(CallList, expected)
            /\ pc = "done" => (CallList = expected /\ response.status = 200)
            /\ \A i \in 1..Len(trace) :
                  trace[i].who # "run" =>
                      \E c \in 1..i :
                          /\ trace[c].ev = "call"
                          /\ trace[c].who = trace[i].who /\ trace[c].row = trace[i].row
                          /\ \A k \in (c + 1)..i : trace[k].ev # "call"

SequentialUpdatersWitness ==
    /\ Succeeded
    /\ Len(Calls) = 4
    /\ \E i \in 1..Len(trace) :
          trace[i].ev = "log" /\ trace[i].who = "insight" /\ trace[i].row = 2
          /\ trace[i].kind = "error"
    /\ \E i \in 1..Len(trace) :
          trace[i].ev = "log" /\ trace[i].who = "product" /\ trace[i].row = 2
          /\ trace[i].kind = "nodata"

\* C9: a run whose sheet connection fails logs the reason, answers 500 with
\* the generic detail only, calls no updater, writes no cell and logs no row.
ConnectionFailure ==
    (pc = "done" /\ ~Connected) =>
        /\ response = [status |-> 500, detail |-> "Internal Server Error"]
        /\ trace = <<LogEv("run", 0, "error",
                          Line("automation_error", "", "connection failed"))>>
        /\ sheet = sheet0

ConnectionFailureWitness ==
    pc = "done" /\ ~Connected /\ log_buffer = <<Line("automation_error", "", "connection failed")>>

\* C10: the written tier prices are non-increasing, and a tier is (0, 0)
\* unless a listing with at least 100 units sold attained it.
Qualifying ==
    {i \in 1..Len(listings) :
        safe_getattr(listings[i].attributes, "approximate_30_day_units_sold", Zero).n >= 100}

TierPrice(k) == aggOut[3 + 2 * k].n
TierUnits(k) == aggOut[4 + 2 * k].n

TierInvariant ==
    aggOut # <<>> =>
        /\ TierPrice(1) >= TierPrice(2) /\ TierPrice(2) >= TierPrice(3)
        /\ \A k \in 1..3 :
              \/ TierPrice(k) = 0 /\ TierUnits(k) = 0
              \/ \E i \in Qualifying :
                    /\ safe_getattr(listings[i].attributes, "price", Zero).n = TierPrice(k)
                    /\ listings[i].attributes.approximate_30_day_units_sold.n = TierUnits(k)
        /\ \A k \in 1..3 : k > Cardinality(Qualifying) => (TierPrice(k) = 0 /\ TierUnits(k) = 0)

TierInvariantWitness ==
    /\ aggOut # <<>>
    /\ Len(listings) = 3
    /\ Cardinality(Qualifying) = 2
    /\ TierPrice(2) > 0 /\ TierPrice(3) = 0
    /\ \E i \in 1..3 : i \notin Qualifying /\ listings[i].attributes.price.n > TierPrice(1)

\* The figures the loop extracts from listing i.
PriceOf(i) == safe_getattr(listings[i].attributes, "price", Zero).n
UnitsOf(i) == safe_getattr(listings[i].attributes, "approximate_30_day_units_sold", Zero).n
ReviewsOf(i) == safe_getattr(listings[i].attributes, "reviews", Zero).n
RevenueOf(i) == safe_getattr(listings[i].attributes, "approximate_30_day_revenue", Zero).n

\* The number of qualifying listings ranked before listing i: a higher price,
\* or the same price met earlier.
RankOf(i) ==
    Cardinality({j \in Qualifying :
                    PriceOf(j) > PriceOf(i) \/ (PriceOf(j) = PriceOf(i) /\ j < i)})

\* The k-th qualifying listing by price descending, ties in encounter order,
\* as (price, units); (0, 0) when fewer than k listings qualify.
SortedTier(k) ==
    LET S == {i \in Qualifying : RankOf(i) = k - 1}
    IN  IF S = {} THEN <<0, 0>>
        ELSE <<PriceOf(CHOOSE i \in S : TRUE), UnitsOf(CHOOSE i \in S : TRUE)>>

\* C11: the three tiers written are the first three qualifying listings
\* (units sold >= 100, a missing price counting as 0) sorted by price
\* descending with ties in encounter order, padded with (0, 0).
TiersAreTopThreeQualifying ==
    aggOut # <<>> =>
        \A k \in 1..3 : <<TierPrice(k), TierUnits(k)>> = SortedTier(k)

\* The sum of a figure over all the listings.
RECURSIVE SumOver(_, _)
SumOver(F(_), n) == IF n = 0 THEN 0 ELSE F(n) + SumOver(F, n - 1)

\* The written cell is the number sum / count.
IsMean(cell, sum, count) ==
    cell.t \in {"int", "float"} /\ cell.d > 0 /\ cell.n * count = sum * cell.d

\* The loop and what follows it are over.
AggDone == aggOut # <<>> \/ aggI = 0

\* C12 as stated: for an empty listing set the four averages are written and
\* are 0; otherwise each is the sum of its figure over all listings divided
\* by the number of listings.
AveragesZeroWhenEmpty ==
    /\ (AggDone /\ listings = <<>>) =>
          (aggOut # <<>> /\ \A k \in 1..4 : aggOut[k] = Zero)
    /\ (aggOut # <<>> /\ listings # <<>>) =>
          /\ IsMean(aggOut[1], SumOver(UnitsOf, Len(listings)), Len(listings))
          /\ IsMean(aggOut[2], SumOver(RevenueOf, Len(listings)), Len(listings))
          /\ IsMean(aggOut[3], SumOver(PriceOf, Len(listings)), Len(listings))
          /\ IsMean(aggOut[4], SumOver(ReviewsOf, Len(listings)), Len(listings))

\* C12 amended: for an empty listing set nothing is written, no average
\* included; when the row is written each of the four averages is the sum of
\* its figure over all listings, qualifying or not and a missing figure
\* counting as 0, divided by the number of listings.
AveragesOverAllListings ==
    /\ listings = <<>> => aggOut = <<>>
    /\ aggOut # <<>> =>
          /\ Len(aggOut) = 12
          /\ IsMean(aggOut[1], SumOver(UnitsOf, Len(listings)), Len(listings))
          /\ IsMean(aggOut[2], SumOver(RevenueOf, Len(listings)), Len(listings))
          /\ IsMean(aggOut[3], SumOver(PriceOf, Len(listings)), Len(listings))
          /\ IsMean(aggOut[4], SumOver(ReviewsOf, Len(listings)), Len(listings))

AveragesOverAllListingsWitness ==
    /\ aggOut # <<>>
    /\ Len(listings) = 3
    /\ Cardinality(Qualifying) = 1
    /\ \E i \in 1..3 : "price" \notin DOMAIN listings[i].attributes
    /\ SumOver(UnitsOf, 3) % 3 # 0
    /\ aggOut[3].n > 0

\* C13: the low-review count written is the number of listings, whatever
\* their units sold, whose review count (a missing one counting as 0) is
\* below 100; a listing with exactly 100 reviews is not counted.
LowReviewSellers == {i \in 1..Len(listings) : ReviewsOf(i) < 100}

LowReviewCount ==
    aggOut # <<>> => aggOut[11] = IntV(Cardinality(LowReviewSellers))

LowReviewCountWitness ==
    /\ aggOut # <<>>
    /\ Len(listings) = 3
    /\ aggOut[11] = IntV(2)
    /\ \E i \in 1..3 : ReviewsOf(i) = 100 /\ i \in Qualifying
    /\ \E i \in 1..3 : i \in LowReviewSellers /\ i \notin Qualifying
    /\ \E i \in 1..3 : "reviews" \notin DOMAIN listings[i].attributes

\* The history entries an updater call at position c added after it: the
\* entries up to the next call or the next entry of run_automation itself.
RECURSIVE SegmentEnd(_)
SegmentEnd(k) ==
    IF k >= Len(trace) THEN Len(trace)
    ELSE IF trace[k + 1].ev = "call" \/ trace[k + 1].who = "run" THEN k
    ELSE SegmentEnd(k + 1)

Segment(c) == SubSeq(trace, c + 1, SegmentEnd(c))

\* The step is a call of the updater who whose fetch came back as kind.
UpdaterStep(who, kind) ==
    /\ Len(trace') > Len(trace)
    /\ trace'[Len(trace) + 1] = Ev("call", who, idx, kind)

\* The keyword of row r as the run read it.
KeywordOf(r) == Render(sheet0[r][1])

\* C14: an insight call whose response carries no data writes nothing,
\* appends exactly one line, which names the keyword, raises nothing, and the
\* product call for the same row follows.
InsightNoDataState ==
    \A c \in 1..Len(trace) :
        trace[c] = Ev("call", "insight", trace[c].row, "empty") =>
            /\ Segment(c) = <<LogEv("insight", trace[c].row, "nodata",
                                    Line("insight_nodata", KeywordOf(trace[c].row), ""))>>
            /\ KeywordOf(trace[c].row) # ""
            /\ IF c + 2 <= Len(trace)
               THEN trace[c + 2].ev = "call" /\ trace[c + 2].who = "product"
                    /\ trace[c + 2].row = trace[c].row
               ELSE pc = "product" /\ idx = trace[c].row /\ response = NoResponse

InsightNoDataStep ==
    UpdaterStep("insight", "empty") =>
        /\ sheet' = sheet
        /\ log_buffer' = Append(log_buffer, Line("insight_nodata", KeywordOf(idx), ""))
        /\ response' = response
        /\ pc' = "product" /\ idx' = idx

InsightNoData == []InsightNoDataState /\ [][InsightNoDataStep]_vars

InsightNoDataWitness ==
    /\ Succeeded
    /\ \E c \in 1..Len(trace) :
          /\ trace[c] = Ev("call", "insight", 2, "empty")
          /\ c + 3 <= Len(trace)
          /\ trace[c + 3] = Ev("write", "product", 2, "")
    /\ sheet[2][2] = None /\ sheet[2][6] # None

\* The insight and product responses that lead to a write.
InsightData == {resp \in InsightResponses : RespKind(resp) = "data"}

ProductData ==
    {resp \in ProductResponses :
        RespKind(resp) = "data" /\ AggLoop(AccInit, resp.data, 1).exc = ""}

\* The columns in which the insight row carries a value, not a placeholder.
InsightValueCols(resp) ==
    {InsightCol + j - 1 : j \in {k \in 1..Len(InsightRow(resp.data[1].attributes)) :
                                    InsightRow(resp.data[1].attributes)[k] # None}}

\* The columns F..Q of the product range.
ProductRange == 6..17

\* The step is a successful write of the updater who.
WriteStep(who) ==
    /\ Len(trace') = Len(trace) + 3
    /\ trace'[Len(trace) + 2] = Ev("write", who, idx, "")

\* C15: the insight write puts its values outside F..Q and leaves F..Q of its
\* row as it was, the product write stays inside F..Q, and writing the two
\* rows in either order gives the same sheet.
DisjointWritesState ==
    /\ \A resp \in InsightData : InsightValueCols(resp) \cap ProductRange = {}
    /\ pc = "product" =>
          \A ri \in InsightData, rp \in ProductData :
              LET irow == InsightRow(ri.data[1].attributes)
                  prow == ProductRow(AggLoop(AccInit, rp.data, 1))
              IN  update(update(sheet, idx, InsightCol, irow), idx, ProductCol, prow)
                  = update(update(sheet, idx, ProductCol, prow), idx, InsightCol, irow)

DisjointWritesStep ==
    /\ WriteStep("insight") =>
          /\ \A j \in ProductRange : sheet'[idx][j] = sheet[idx][j]
          /\ \E j \in 1..SheetWidth : sheet'[idx][j] # sheet[idx][j]
    /\ WriteStep("product") =>
          \A j \in 1..SheetWidth : j \notin ProductRange => sheet'[idx][j] = sheet[idx][j]

DisjointWrites == []DisjointWritesState /\ [][DisjointWritesStep]_vars

DisjointWritesWitness ==
    /\ pc = "product"
    /\ update_mode = "all"
    /\ trace[Len(trace) - 1] = Ev("write", "insight", idx, "")
    /\ sheet0[idx][7] = IntV(0) /\ sheet[idx][7] = IntV(0)
    /\ sheet[idx][2] = IntV(1200) /\ sheet[idx][24] = IntV(900)

\* The attribute each cell of the insight row is to carry, "" for a placeholder.
InsightFields ==
    << "monthly_search_volume_exact", "monthly_search_volume_broad",
       "ease_of_ranking_score", "sponsored_product_count",
       "", "", "", "", "", "", "", "", "", "", "", "",
       "monthly_trend", "quarterly_trend", "recommended_promotions",
       "sp_brand_ad_bid", "ppc_bid_broad", "ppc_bid_exact",
       "estimated_30_day_search_volume" >>

\* The value of an attribute, 0 when it is missing or neither number nor text.
ValueOrZero(attrs, name) ==
    IF name \in DOMAIN attrs /\ attrs[name].t \in {"int", "float", "str"}
    THEN attrs[name] ELSE IntV(0)

\* Row idx after the insight write, the cells of the fields q going from
\* column B on: a value is stored, a placeholder leaves its cell as it was.
RowAfterInsight(attrs, q) ==
    [j \in 1..SheetWidth |->
        IF j >= 2 /\ j - 1 <= Len(q) /\ q[j - 1] # ""
        THEN ValueOrZero(attrs, q[j - 1]) ELSE sheet[idx][j]]

\* The 21 fields of four values, ten placeholders and seven values.
TwentyOneFields == SubSeq(InsightFields, 1, 14) \o SubSeq(InsightFields, 17, 23)

\* C16 as stated: the insight write is a row of 21 cells from column B on,
\* four values first and seven values last.
InsightRowOf21Step ==
    WriteStep("insight") =>
        \E resp \in InsightData :
            sheet' = [sheet EXCEPT ![idx] = RowAfterInsight(resp.data[1].attributes, TwentyOneFields)]

InsightRowOf21 == [][InsightRowOf21Step]_vars

\* C16 amended: the insight write is a row of 23 cells from column B on: the
\* four metric values, three groups of four placeholders, then monthly trend,
\* quarterly trend, recommended promotions, the three bids and the estimated
\* 30-day search volume, a missing or unusable attribute written as 0.
InsightRowOf23Step ==
    WriteStep("insight") =>
        \E resp \in InsightData :
            /\ Len(InsightRow(resp.data[1].attributes)) = 23
            /\ {k \in 1..23 : InsightRow(resp.data[1].attributes)[k] = None} = 5..16
            /\ sheet' = [sheet EXCEPT ![idx] = RowAfterInsight(resp.data[1].attributes, InsightFields)]

InsightRowOf23 == [][InsightRowOf23Step]_vars

InsightRowOf23Witness ==
    /\ pc = "product"
    /\ trace[Len(trace) - 1] = Ev("write", "insight", idx, "")
    /\ sheet[idx][2] = IntV(0) /\ sheet[idx][3] = IntV(0)
    /\ sheet[idx][4] = IntV(0) /\ sheet[idx][18] = IntV(0)
    /\ sheet[idx][6] = None /\ sheet[idx][17] = None
    /\ sheet[idx][24] = IntV(0)

\* The log entries of the run's history, in order.
LogEvents == SelectSeq(trace, IsLog)

\* C17: with no get_logs call, the buffer holds the run's lines in the order
\* they were appended: the mode banner before every row's line, the insight
\* line of a row before its product line, a lower row's lines before a
\* higher row's, each row's line naming that row's keyword.
LogOrder ==
    /\ log_buffer = LoggedLines
    /\ \A i \in 1..Len(LogEvents) :
          /\ LogEvents[i].kind = "banner" => i = 1
          /\ LogEvents[i].who # "run" =>
                /\ LogEvents[1].kind = "banner"
                /\ log_buffer[1] = Line("processing_" \o update_mode, "", "")
                /\ log_buffer[i].kw = KeywordOf(LogEvents[i].row)
    /\ \A i, j \in 1..Len(LogEvents) :
          (i < j /\ LogEvents[i].who # "run" /\ LogEvents[j].who # "run") =>
              \/ LogEvents[i].row < LogEvents[j].row
              \/ /\ LogEvents[i].row = LogEvents[j].row
                 /\ LogEvents[i].who = "insight" /\ LogEvents[j].who = "product"

LogOrderWitness ==
    /\ Succeeded
    /\ Len(log_buffer) = 5
    /\ log_buffer[2].kw = "shoes" /\ log_buffer[2].kind = "insight_error"
    /\ log_buffer[3].kw = "shoes" /\ log_buffer[3].kind = "product_updated"
    /\ log_buffer[4].kw = "hats" /\ log_buffer[4].kind = "insight_nodata"
    /\ log_buffer[5].kw = "hats" /\ log_buffer[5].kind = "product_error"

\* C18: every updater call appends exactly one line and writes at most once;
\* the success line comes after the write, and a call whose fetch raised or
\* came back empty ends in the error or no-data line with nothing written.
OneLinePerCallState ==
    \A c \in 1..Len(trace) :
        trace[c].ev = "call" =>
            LET seg == Segment(c)
                who == trace[c].who
                row == trace[c].row
                kw == KeywordOf(row)
            IN  /\ \/ seg = <<Ev("write", who, row, ""),
                              LogEv(who, row, "updated", Line(who \o "_updated", kw, ""))>>
                   \/ /\ Len(seg) = 1
                      /\ seg[1].ev = "log" /\ seg[1].who = who /\ seg[1].row = row
                      /\ seg[1].kind \in {"nodata", "error"}
                /\ trace[c].kind = "empty" =>
                      seg = <<LogEv(who, row, "nodata", Line(who \o "_nodata", kw, ""))>>
                /\ trace[c].kind = "raised" =>
                      seg = <<LogEv(who, row, "error", Line(who \o "_error", kw, "api error"))>>
                /\ Len(seg) = 2 => trace[c].kind = "data"

OneLinePerCallStep ==
    \A who \in {"insight", "product"} :
        \A kind \in {"raised", "empty", "data"} :
            UpdaterStep(who, kind) =>
                /\ Len(log_buffer') = Len(log_buffer) + 1
                /\ response' = response
                /\ sheet' # sheet => (kind = "data" /\ WriteStep(who))
                /\ ~WriteStep(who) => sheet' = sheet
                /\ \A r \in 1..Len(sheet) : r # idx => sheet'[r] = sheet[r]

OneLinePerCall == []OneLinePerCallState /\ [][OneLinePerCallStep]_vars

OneLinePerCallWitness ==
    /\ Succeeded
    /\ Len(Calls) = 4
    /\ \E c \in 1..Len(trace) :
          trace[c] = Ev("call", "insight", 2, "data") /\ Len(Segment(c)) = 1
    /\ \E c \in 1..Len(trace) :
          trace[c] = Ev("call", "product", 2, "data") /\ Len(Segment(c)) = 2
    /\ \E c \in 1..Len(trace) :
          trace[c] = Ev("call", "insight", 3, "raised")
    /\ \E c \in 1..Len(trace) :
          trace[c] = Ev("call", "product", 3, "empty")

\* The rows with a write in the run's history.
WrittenRows == {trace[i].row : i \in {k \in 1..Len(trace) : trace[k].ev = "write"}}

\* The rows the run is to work on, told from the sheet as the run found it:
\* a data row with a keyword and, for mode "new", nothing in its other cells.
RowsOfMode ==
    {r \in 2..Len(sheet0) :
        /\ KeywordCell(r) # None
        /\ \/ update_mode = "all"
           \/ update_mode = "new" /\ \A c \in MetricCells(r) : c = None}

\* C19: a run leaves column A, the header row and every row it did not
\* select as they were, and writes only to rows it selected.
RunFrame ==
    /\ \A r \in 1..Len(sheet) : sheet[r][1] = sheet0[r][1]
    /\ Len(sheet) = Len(sheet0)
    /\ sheet[1] = sheet0[1]
    /\ \A r \in 1..Len(sheet) : r \notin RowsOfMode => sheet[r] = sheet0[r]
    /\ WrittenRows \subseteq RowsOfMode
    /\ \A r \in 1..Len(sheet) : sheet[r] # sheet0[r] => r \in WrittenRows

RunFrameWitness ==
    /\ Succeeded
    /\ update_mode = "new"
    /\ sheet0[1] = HeaderFull
    /\ WrittenRows = {3}
    /\ sheet0[2][1] = StrV("shoes") /\ sheet0[2][7] = IntV(0)
    /\ sheet[3][2] # None /\ sheet[3][6] # None

\* The rows mode "new" selects when it reads the sheet sh.
NewRowsOf(sh) ==
    {r \in FirstDataIndex..Len(get_all_values(sh)) : RowSelected("new", get_all_values(sh)[r])}

\* Every cell the run changed in row r holds a zero now.
WroteZerosOnly(r) ==
    \A j \in 1..SheetWidth : sheet[r][j] # sheet0[r][j] => sheet[r][j].n = 0

====
